---- MODULE Spec2Model ----
(***************************************************************************)
(* The request handlers of catalog/views.py as a state machine.  The store *)
(* holds the four record kinds (Book, Author, Genre, BookInstance); every  *)
(* handler is one action that maps (store, session, request) to            *)
(* (store', session', response).  The landing page is split into its read  *)
(* step and its write step, because two requests of one session can        *)
(* overlap there.                                                          *)
(*                                                                         *)
(* An optional value (a nullable column, an absent form field) is a set    *)
(* with no element or one element.  Dates are day numbers.                 *)
(***************************************************************************)
EXTENDS Integers, Sequences, FiniteSets

VARIABLES
    today,       \* datetime.date.today()
    instances,   \* BookInstance table: pk -> record
    books,       \* Book table: pk -> record
    authors,     \* Author table: pk -> record
    genres,      \* Genre table: set of pks
    sessions,    \* session store: session key -> num_visits (0 when absent)
    inflight,    \* landing-page requests between their read and their write
    completed,   \* per session: landing-page views that have completed
    overlapped,  \* per session: some view read while another one was in flight
    resp         \* the last request handled and its response

vars == <<today, instances, books, authors, genres, sessions, inflight,
          completed, overlapped, resp>>

store == <<instances, books, authors, genres>>

(***************************** bounds **************************************)
MaxInst == 2
MaxListed == 3
MaxBook == 2
MaxAuthor == 2
FirstDay == 1
MaxVisits == 3
MaxSlots == 2

(***************************** callers *************************************)
Users == {"anon", "patron", "librarian"}

is_authenticated(u) == u # "anon"

\* user.has_perms(('catalog.can_mark_returned',))
has_perm(u) == u = "librarian"

\* LoginRequiredMixin.dispatch: the anonymous caller is sent to the login page.
LoginRequiredMixin(u) ==
    IF is_authenticated(u) THEN "pass" ELSE "redirect_login"

\* PermissionRequiredMixin.dispatch -> AccessMixin.handle_no_permission:
\* PermissionDenied for an authenticated caller, the login page otherwise.
PermissionRequiredMixin(u) ==
    IF has_perm(u) THEN "pass"
    ELSE IF is_authenticated(u) THEN "forbidden"
    ELSE "redirect_login"

\* @login_required: user_passes_test(is_authenticated), else the login page.
login_required(u) ==
    IF is_authenticated(u) THEN "pass" ELSE "redirect_login"

\* @permission_required(perm) with raise_exception left at False:
\* user_passes_test(has_perms), else the login page.
permission_required(u) ==
    IF has_perm(u) THEN "pass" ELSE "redirect_login"

(***************************** the store ***********************************)
Statuses == {"a", "o", "m", "r"}
Methods == {"GET", "POST"}
RenewMethods == {"GET", "POST", "PUT"}

InstKeys == 1..(MaxInst + 1)
BookKeys == 1..(MaxBook + 1)
AuthorKeys == 1..(MaxAuthor + 1)

Names == {"n1", "n2"}
Titles == {"t1"}

\* The value of an optional that is present.
The(S) == CHOOSE x \in S : TRUE

\* The response record: what was asked (op, user, pk, method, date; session
\* for the landing page) and what was answered (code, list for the list
\* views, initial for an unbound form, shown for the landing page).
Response(op, u, pk, method, date, code, list, initial) ==
    [op |-> op, user |-> u, pk |-> pk, method |-> method, date |-> date,
     code |-> code, list |-> list, initial |-> initial,
     session |-> "none", shown |-> {}]

NoResponse == Response("none", "anon", 0, "GET", {}, "none", <<>>, {})

(***************************** loan lists **********************************)
\* The orderings ORDER BY due_back ASC may produce of the rows S: ascending
\* on the dates, rows without a date all first or all last (the database
\* decides), rows with equal dates in any order.
Perms(S) ==
    {f \in [1..Cardinality(S) -> S] : \A i, j \in 1..Cardinality(S) : f[i] = f[j] => i = j}

DateLeq(a, b, nullsFirst) ==
    IF a = {} /\ b = {} THEN TRUE
    ELSE IF a = {} THEN nullsFirst
    ELSE IF b = {} THEN ~nullsFirst
    ELSE The(a) <= The(b)

\* A queryset without order_by: the rows in any order.
unordered(S) == Perms(S)

order_by_due_back(S) ==
    {f \in Perms(S) : \E nullsFirst \in BOOLEAN :
        \A i, j \in 1..Cardinality(S) :
            i < j => DateLeq(instances[f[i]].due_back, instances[f[j]].due_back, nullsFirst)}

\* A filter on the borrower alone.
UserLoansFilterAnyStatus(u) ==
    {k \in DOMAIN instances : instances[k].borrower = {u}}

\* LoanedBooksByUserListView.get_queryset
UserLoansFilter(u) ==
    {k \in DOMAIN instances : instances[k].borrower = {u} /\ instances[k].status = "o"}

\* LoanedBooksLibrarianView.get_queryset
AllLoansFilter ==
    {k \in DOMAIN instances : instances[k].status = "o"}

\* paginate_by: the page shown is the first PaginateBy rows of the queryset.
PaginateBy == 10

FirstPage(q) == SubSeq(q, 1, IF Len(q) < PaginateBy THEN Len(q) ELSE PaginateBy)

LoanedBooksByUserQuerysets(u) == order_by_due_back(UserLoansFilter(u))

LoanedBooksLibrarianQuerysets == order_by_due_back(AllLoansFilter)

LoanedBooksByUserListView(u) ==
    /\ \/ /\ LoginRequiredMixin(u) # "pass"
          /\ resp' = Response("my-borrowed", u, 0, "GET", {}, LoginRequiredMixin(u), <<>>, {})
       \/ /\ LoginRequiredMixin(u) = "pass"
          /\ \E q \in LoanedBooksByUserQuerysets(u) :
                resp' = Response("my-borrowed", u, 0, "GET", {}, "ok", FirstPage(q), {})
    /\ UNCHANGED <<today, instances, books, authors, genres, sessions, inflight,
                   completed, overlapped>>

LoanedBooksLibrarianView(u) ==
    /\ \/ /\ PermissionRequiredMixin(u) # "pass"
          /\ resp' = Response("all-borrowed", u, 0, "GET", {}, PermissionRequiredMixin(u), <<>>, {})
       \/ /\ PermissionRequiredMixin(u) = "pass"
          /\ \E q \in LoanedBooksLibrarianQuerysets :
                resp' = Response("all-borrowed", u, 0, "GET", {}, "ok", FirstPage(q), {})
    /\ UNCHANGED <<today, instances, books, authors, genres, sessions, inflight,
                   completed, overlapped>>

(***************************** loan renewal ********************************)
DaysPerWeek == 7
MaxRenewalWeeks == 4
ProposedWeeks == 3

\* The dates a renewal request may carry, relative to today: yesterday, today,
\* the last day allowed, the first day refused, and five weeks ahead.
Offsets == {0 - 1, 0, MaxRenewalWeeks * DaysPerWeek, MaxRenewalWeeks * DaysPerWeek + 1,
            (MaxRenewalWeeks + 1) * DaysPerWeek}

SubmittedDates == {today + o : o \in Offsets}

\* RenewBookModelForm.is_valid: clean_due_back refuses a date in the past and
\* a date more than four weeks ahead.
is_valid(d) ==
    /\ d >= today
    /\ d <= today + MaxRenewalWeeks * DaysPerWeek

\* A proposal of the longest renewal allowed instead of three weeks.
ProposedRenewalDateLongest == today + MaxRenewalWeeks * DaysPerWeek

\* proposed_renewal_date = today + timedelta(weeks=3)
ProposedRenewalDate == today + ProposedWeeks * DaysPerWeek

\* A renewal that also marks the copy as on loan.
SaveDueBackAndStatus(pk, d) ==
    [instances EXCEPT ![pk].due_back = {d}, ![pk].status = "o"]

\* book_instance.due_back = ...; book_instance.save()
SaveDueBack(pk, d) ==
    [instances EXCEPT ![pk].due_back = {d}]

\* A view body that saves the posted date without asking the form.
RenewViewUnvalidated(u, pk, method, d) ==
    IF pk \notin DOMAIN instances
    THEN [instances |-> instances,
          resp |-> Response("renew", u, pk, method, d, "not_found", <<>>, {})]
    ELSE IF method = "POST"
    THEN IF d # {}
         THEN [instances |-> SaveDueBack(pk, The(d)),
               resp |-> Response("renew", u, pk, method, d, "redirect_all-borrowed", <<>>, {})]
         ELSE [instances |-> instances,
               resp |-> Response("renew", u, pk, method, d, "form_errors", <<>>, {})]
    ELSE [instances |-> instances,
          resp |-> Response("renew", u, pk, method, d, "form", <<>>,
                            {ProposedRenewalDate})]

\* The view body, run once both decorators have let the caller through.
RenewView(u, pk, method, d) ==
    IF pk \notin DOMAIN instances
    THEN [instances |-> instances,
          resp |-> Response("renew", u, pk, method, d, "not_found", <<>>, {})]
    ELSE IF method = "POST"
    THEN IF d # {} /\ is_valid(The(d))
         THEN [instances |-> SaveDueBack(pk, The(d)),
               resp |-> Response("renew", u, pk, method, d, "redirect_all-borrowed", <<>>, {})]
         ELSE [instances |-> instances,
               resp |-> Response("renew", u, pk, method, d, "form_errors", <<>>, {})]
    ELSE [instances |-> instances,
          resp |-> Response("renew", u, pk, method, d, "form", <<>>,
                            {ProposedRenewalDate})]

\* A view that looks the copy up before it asks who is calling.
renew_book_librarian_lookup_first(u, pk, method, d) ==
    IF pk \notin DOMAIN instances
    THEN [instances |-> instances,
          resp |-> Response("renew", u, pk, method, d, "not_found", <<>>, {})]
    ELSE IF login_required(u) # "pass"
    THEN [instances |-> instances,
          resp |-> Response("renew", u, pk, method, d, login_required(u), <<>>, {})]
    ELSE IF permission_required(u) # "pass"
    THEN [instances |-> instances,
          resp |-> Response("renew", u, pk, method, d, permission_required(u), <<>>, {})]
    ELSE RenewView(u, pk, method, d)

\* The decorated view: login_required is outermost and runs first.
renew_book_librarian(u, pk, method, d) ==
    IF login_required(u) # "pass"
    THEN [instances |-> instances,
          resp |-> Response("renew", u, pk, method, d, login_required(u), <<>>, {})]
    ELSE IF permission_required(u) # "pass"
    THEN [instances |-> instances,
          resp |-> Response("renew", u, pk, method, d, permission_required(u), <<>>, {})]
    ELSE RenewView(u, pk, method, d)

RenewBookLibrarian(u, pk, method, d) ==
    /\ instances' = renew_book_librarian(u, pk, method, d).instances
    /\ resp' = renew_book_librarian(u, pk, method, d).resp
    /\ UNCHANGED <<today, books, authors, genres, sessions, inflight,
                   completed, overlapped>>

\* The requests a client can send to the renewal endpoint: a GET carries no
\* date, a POST carries one of the submitted dates or text that is no date.
RenewRequest ==
    \E u \in Users, pk \in InstKeys :
        \/ \E m \in RenewMethods \ {"POST"} : RenewBookLibrarian(u, pk, m, {})
        \/ \E d \in SubmittedDates : RenewBookLibrarian(u, pk, "POST", {d})
        \/ RenewBookLibrarian(u, pk, "POST", {})

(***************************** landing page ********************************)
Sessions == {"s1", "s2"}

InFlight(s) == {r \in DOMAIN inflight : inflight[r] # {} /\ The(inflight[r]).session = s}

\* A counter stored back as it was read.
NextVisitsSame(num_visits) == num_visits

\* The value index() stores back: the value it read plus one.
NextVisits(num_visits) == num_visits + 1

\* index(), lines 20-33: the counts of books, copies, authors and genres are
\* read for the page and change nothing; then
\* num_visits = request.session.get('num_visits', 0).
\* The request holds what it read until it writes.
IndexRead(r, s) ==
    /\ inflight[r] = {}
    /\ completed[s] + Cardinality(InFlight(s)) < MaxVisits
    /\ inflight' = [inflight EXCEPT ![r] = {[session |-> s, num_visits |-> sessions[s]]}]
    /\ overlapped' = [overlapped EXCEPT ![s] = overlapped[s] \/ InFlight(s) # {}]
    /\ UNCHANGED <<today, instances, books, authors, genres, sessions, completed, resp>>

\* index(), lines 34-47: request.session['num_visits'] = num_visits + 1, the
\* page shows num_visits, and the session is saved with the response.
IndexWrite(r) ==
    /\ inflight[r] # {}
    /\ LET q == The(inflight[r]) IN
        /\ sessions' = [sessions EXCEPT ![q.session] = NextVisits(q.num_visits)]
        /\ completed' = [completed EXCEPT ![q.session] = completed[q.session] + 1]
        /\ resp' = [NoResponse EXCEPT !.op = "index", !.code = "ok",
                                      !.session = q.session, !.shown = {q.num_visits}]
    /\ inflight' = [inflight EXCEPT ![r] = {}]
    /\ UNCHANGED <<today, instances, books, authors, genres, overlapped>>

(***************************** authors and books ***************************)
\* What the store does to the rows that reference a deleted row is set by
\* the on_delete option of the foreign key: the reference is cleared, or the
\* referencing row is deleted with it.
OnDelete == {"SET_NULL", "CASCADE"}

Restrict(f, S) == [k \in S |-> f[k]]

\* The submitted fields of an Author and of a Book; "" is a required field
\* left empty.
AuthorData == [last_name : Names \cup {""}]

BookData == [title : Titles \cup {""}, author : {{}} \cup {{a} : a \in AuthorKeys}]

AuthorFormValid(data) == data.last_name # ""

BookFormValid(data) == data.title # "" /\ data.author \subseteq DOMAIN authors

\* The BookInstance table once the books of B are deleted.
InstancesWithoutBooks(B, policy) ==
    IF policy = "CASCADE"
    THEN Restrict(instances, {k \in DOMAIN instances : instances[k].book \cap B = {}})
    ELSE [k \in DOMAIN instances |->
            IF instances[k].book \cap B # {}
            THEN [instances[k] EXCEPT !.book = {}] ELSE instances[k]]

\* The Book table once author pk is deleted.
BooksWithoutAuthor(pk, policy) ==
    IF policy = "CASCADE"
    THEN Restrict(books, {b \in DOMAIN books : books[b].author # {pk}})
    ELSE [b \in DOMAIN books |->
            IF books[b].author = {pk} THEN [books[b] EXCEPT !.author = {}] ELSE books[b]]

Unchanged(op, u, pk, method, code) ==
    [authors |-> authors, books |-> books, instances |-> instances,
     resp |-> Response(op, u, pk, method, {}, code, <<>>, {})]

\* BookDelete with the success_url of AuthorDelete.
BookDeleteSuccessAuthors == "redirect_authors"

\* AuthorDelete.success_url and BookDelete.success_url
AuthorDeleteSuccess == "redirect_authors"

BookDeleteSuccess == "redirect_books"

\* DeletionMixin.delete: self.object.delete()
DeleteAuthorRow(pk) == Restrict(authors, DOMAIN authors \ {pk})

DeleteBookRow(pk) == Restrict(books, DOMAIN books \ {pk})

author_create(u, method, data, pk) ==
    IF PermissionRequiredMixin(u) # "pass"
    THEN Unchanged("author-create", u, 0, method, PermissionRequiredMixin(u))
    ELSE IF method = "GET"
    THEN Unchanged("author-create", u, 0, method, "form")
    ELSE IF ~AuthorFormValid(data)
    THEN Unchanged("author-create", u, 0, method, "form_errors")
    ELSE [authors |-> [k \in DOMAIN authors \cup {pk} |->
                          IF k = pk THEN data ELSE authors[k]],
          books |-> books, instances |-> instances,
          resp |-> Response("author-create", u, pk, method, {}, "redirect_author-detail", <<>>, {})]

author_update(u, pk, method, data) ==
    IF PermissionRequiredMixin(u) # "pass"
    THEN Unchanged("author-update", u, pk, method, PermissionRequiredMixin(u))
    ELSE IF pk \notin DOMAIN authors
    THEN Unchanged("author-update", u, pk, method, "not_found")
    ELSE IF method = "GET"
    THEN Unchanged("author-update", u, pk, method, "form")
    ELSE IF ~AuthorFormValid(data)
    THEN Unchanged("author-update", u, pk, method, "form_errors")
    ELSE [authors |-> [authors EXCEPT ![pk] = data],
          books |-> books, instances |-> instances,
          resp |-> Response("author-update", u, pk, method, {}, "redirect_author-detail", <<>>, {})]

author_delete(u, pk, method, pa, pb) ==
    IF PermissionRequiredMixin(u) # "pass"
    THEN Unchanged("author-delete", u, pk, method, PermissionRequiredMixin(u))
    ELSE IF pk \notin DOMAIN authors
    THEN Unchanged("author-delete", u, pk, method, "not_found")
    ELSE IF method = "GET"
    THEN Unchanged("author-delete", u, pk, method, "confirm_delete")
    ELSE [authors |-> DeleteAuthorRow(pk),
          books |-> BooksWithoutAuthor(pk, pa),
          instances |-> IF pa = "CASCADE"
                        THEN InstancesWithoutBooks(
                                 {b \in DOMAIN books : books[b].author = {pk}}, pb)
                        ELSE instances,
          resp |-> Response("author-delete", u, pk, method, {}, AuthorDeleteSuccess, <<>>, {})]

book_create(u, method, data, pk) ==
    IF PermissionRequiredMixin(u) # "pass"
    THEN Unchanged("book-create", u, 0, method, PermissionRequiredMixin(u))
    ELSE IF method = "GET"
    THEN Unchanged("book-create", u, 0, method, "form")
    ELSE IF ~BookFormValid(data)
    THEN Unchanged("book-create", u, 0, method, "form_errors")
    ELSE [authors |-> authors,
          books |-> [k \in DOMAIN books \cup {pk} |->
                        IF k = pk THEN data ELSE books[k]],
          instances |-> instances,
          resp |-> Response("book-create", u, pk, method, {}, "redirect_book-detail", <<>>, {})]

book_update(u, pk, method, data) ==
    IF PermissionRequiredMixin(u) # "pass"
    THEN Unchanged("book-update", u, pk, method, PermissionRequiredMixin(u))
    ELSE IF pk \notin DOMAIN books
    THEN Unchanged("book-update", u, pk, method, "not_found")
    ELSE IF method = "GET"
    THEN Unchanged("book-update", u, pk, method, "form")
    ELSE IF ~BookFormValid(data)
    THEN Unchanged("book-update", u, pk, method, "form_errors")
    ELSE [authors |-> authors,
          books |-> [books EXCEPT ![pk] = data],
          instances |-> instances,
          resp |-> Response("book-update", u, pk, method, {}, "redirect_book-detail", <<>>, {})]

book_delete(u, pk, method, pb) ==
    IF PermissionRequiredMixin(u) # "pass"
    THEN Unchanged("book-delete", u, pk, method, PermissionRequiredMixin(u))
    ELSE IF pk \notin DOMAIN books
    THEN Unchanged("book-delete", u, pk, method, "not_found")
    ELSE IF method = "GET"
    THEN Unchanged("book-delete", u, pk, method, "confirm_delete")
    ELSE [authors |-> authors,
          books |-> DeleteBookRow(pk),
          instances |-> InstancesWithoutBooks({pk}, pb),
          resp |-> Response("book-delete", u, pk, method, {}, BookDeleteSuccess, <<>>, {})]

\* A handler's result written to the store and returned to the caller.
Apply(r) ==
    /\ authors' = r.authors
    /\ books' = r.books
    /\ instances' = r.instances
    /\ resp' = r.resp
    /\ UNCHANGED <<today, genres, sessions, inflight, completed, overlapped>>

\* The key the store gives a new row: one no row holds.
AuthorCreate(u, method, data) ==
    \E pk \in 1..MaxAuthor : pk \notin DOMAIN authors /\ Apply(author_create(u, method, data, pk))

AuthorUpdate(u, pk, method, data) == Apply(author_update(u, pk, method, data))

AuthorDelete(u, pk, method) ==
    \E pa \in OnDelete, pb \in OnDelete : Apply(author_delete(u, pk, method, pa, pb))

BookCreate(u, method, data) ==
    \E pk \in 1..MaxBook : pk \notin DOMAIN books /\ Apply(book_create(u, method, data, pk))

BookUpdate(u, pk, method, data) == Apply(book_update(u, pk, method, data))

BookDelete(u, pk, method) ==
    \E pb \in OnDelete : Apply(book_delete(u, pk, method, pb))

\* BookDetailView, AuthorDetailView: the row, or not found.
BookDetailView(u, pk) ==
    /\ resp' = Response("book-detail", u, pk, "GET", {},
                        IF pk \in DOMAIN books THEN "ok" ELSE "not_found", <<>>, {})
    /\ UNCHANGED <<today, instances, books, authors, genres, sessions, inflight,
                   completed, overlapped>>

AuthorDetailView(u, pk) ==
    /\ resp' = Response("author-detail", u, pk, "GET", {},
                        IF pk \in DOMAIN authors THEN "ok" ELSE "not_found", <<>>, {})
    /\ UNCHANGED <<today, instances, books, authors, genres, sessions, inflight,
                   completed, overlapped>>

\* BookListView, AuthorListView: every row, in an order the model sets.
BookListView(u) ==
    /\ \E q \in Perms(DOMAIN books) :
          resp' = Response("books", u, 0, "GET", {}, "ok", FirstPage(q), {})
    /\ UNCHANGED <<today, instances, books, authors, genres, sessions, inflight,
                   completed, overlapped>>

AuthorListView(u) ==
    /\ \E q \in Perms(DOMAIN authors) :
          resp' = Response("authors", u, 0, "GET", {}, "ok", FirstPage(q), {})
    /\ UNCHANGED <<today, instances, books, authors, genres, sessions, inflight,
                   completed, overlapped>>

(***************************** initial states ******************************)
\* A BookInstance as the data model describes it: a due-back date and a
\* borrower only when on loan.
RenewInitInstances ==
    {r \in [book : {{1}}, status : Statuses, due_back : {{}, {today}},
            borrower : {{}, {"patron"}}] :
        /\ r.status # "o" => r.due_back = {} /\ r.borrower = {}
        /\ r.status = "o" => r.due_back # {} /\ r.borrower # {}}

\* The stores the list views are asked about: any status, any borrower, and
\* for a copy on loan any due-back date or none.
ListInitInstances ==
    {r \in [book : {{1}}, status : Statuses,
            due_back : {{}, {today}, {today + MaxRenewalWeeks * DaysPerWeek}},
            borrower : {{}, {"patron"}, {"librarian"}}] :
        r.status # "o" => r.due_back = {}}

InitCommon ==
    /\ today = FirstDay
    /\ genres = {1}
    /\ sessions = [s \in Sessions |-> 0]
    /\ inflight = [r \in 1..MaxSlots |-> {}]
    /\ completed = [s \in Sessions |-> 0]
    /\ overlapped = [s \in Sessions |-> FALSE]
    /\ resp = NoResponse

InitCatalog ==
    /\ books = [b \in {1} |-> [title |-> "t1", author |-> {1}]]
    /\ authors = [a \in {1} |-> [last_name |-> "n1"]]

InitRenew ==
    /\ InitCommon
    /\ InitCatalog
    /\ instances \in [1..MaxInst -> RenewInitInstances]

InitLists ==
    /\ InitCommon
    /\ InitCatalog
    /\ instances \in [1..MaxListed -> ListInitInstances]

InitIndex ==
    /\ InitCommon
    /\ InitCatalog
    /\ instances = [k \in 1..MaxInst |->
                      [book |-> {1}, status |-> "a", due_back |-> {}, borrower |-> {}]]

\* The catalogs the delete views are asked about: any authors and books
\* within the bounds, book b written by author b when there is one, copy k a
\* copy of book k when there is one.
InitDelete ==
    /\ InitCommon
    /\ authors \in UNION {[S -> [last_name : {"n1"}]] : S \in SUBSET (1..MaxAuthor)}
    /\ \E S \in SUBSET (1..MaxBook) :
          books = [b \in S |-> [title |-> "t1", author |-> {b} \cap DOMAIN authors]]
    /\ instances = [k \in 1..MaxInst |->
                      [book |-> {k} \cap DOMAIN books, status |-> "a",
                       due_back |-> {}, borrower |-> {}]]

NextRenew == RenewRequest

NextCatalog ==
    \/ \E u \in Users, m \in Methods, data \in AuthorData : AuthorCreate(u, m, data)
    \/ \E u \in Users, pk \in AuthorKeys, m \in Methods, data \in AuthorData :
          AuthorUpdate(u, pk, m, data)
    \/ \E u \in Users, pk \in AuthorKeys, m \in Methods : AuthorDelete(u, pk, m)
    \/ \E u \in Users, m \in Methods, data \in BookData : BookCreate(u, m, data)
    \/ \E u \in Users, pk \in BookKeys, m \in Methods, data \in BookData :
          BookUpdate(u, pk, m, data)
    \/ \E u \in Users, pk \in BookKeys, m \in Methods : BookDelete(u, pk, m)

NextDelete ==
    \/ \E u \in Users, pk \in AuthorKeys, m \in Methods : AuthorDelete(u, pk, m)
    \/ \E u \in Users, pk \in BookKeys, m \in Methods : BookDelete(u, pk, m)

NextBrowse ==
    \/ \E u \in Users, pk \in BookKeys : BookDetailView(u, pk)
    \/ \E u \in Users, pk \in AuthorKeys : AuthorDetailView(u, pk)
    \/ \E u \in Users : BookListView(u)
    \/ \E u \in Users : AuthorListView(u)

NextLists ==
    \/ \E u \in Users : LoanedBooksByUserListView(u)
    \/ \E u \in Users : LoanedBooksLibrarianView(u)

NextIndex ==
    \/ \E r \in 1..MaxSlots, s \in Sessions : IndexRead(r, s)
    \/ \E r \in 1..MaxSlots : IndexWrite(r)

Next == NextRenew \/ NextLists \/ NextIndex \/ NextCatalog \/ NextBrowse

Spec == InitIndex /\ [][Next]_vars

SpecCatalog == InitIndex /\ [][NextCatalog]_vars

SpecDelete == InitDelete /\ [][NextDelete]_vars

SpecRenew == InitRenew /\ [][NextRenew]_vars

SpecLists == InitLists /\ [][NextLists]_vars

SpecIndex == InitIndex /\ [][NextIndex]_vars

(***************************** properties **********************************)
FourWeeksAhead == today + 4 * 7

Authorized(u) == is_authenticated(u) /\ has_perm(u)

SameStore == store' = store

\* The step is the renewal request that resp' records.
RenewStep(u, pk, m, d) ==
    /\ resp'.op = "renew"
    /\ u = resp'.user /\ pk = resp'.pk /\ m = resp'.method /\ d = resp'.date
    /\ RenewBookLibrarian(u, pk, m, d)

\* C1: a POST by an authorized caller with a date that passes validation
\* changes the store in one place only, the due_back of the copy with the
\* requested key, which becomes the submitted date; status, borrower and book
\* of that copy, every other copy, and every Book, Author and Genre stay as
\* they were; the response is a redirect to the librarian all-loans list.
C1_RenewalChangesOnlyDueBack ==
    [][\A u \in {resp'.user}, pk \in {resp'.pk}, d \in resp'.date :
        (/\ RenewStep(u, pk, "POST", {d})
         /\ Authorized(u)
         /\ pk \in DOMAIN instances
         /\ is_valid(d))
        => /\ DOMAIN instances' = DOMAIN instances
           /\ instances'[pk].due_back = {d}
           /\ instances'[pk].status = instances[pk].status
           /\ instances'[pk].borrower = instances[pk].borrower
           /\ instances'[pk].book = instances[pk].book
           /\ \A k \in DOMAIN instances \ {pk} : instances'[k] = instances[k]
           /\ books' = books
           /\ authors' = authors
           /\ genres' = genres
           /\ resp'.code = "redirect_all-borrowed"]_vars

\* A renewal by the librarian has moved the due date of a copy on loan from
\* today to four weeks ahead, next to another copy.
C1_Witness ==
    /\ resp.op = "renew" /\ resp.method = "POST" /\ resp.user = "librarian"
    /\ resp.code = "redirect_all-borrowed"
    /\ resp.date = {FourWeeksAhead}
    /\ resp.pk \in DOMAIN instances
    /\ instances[resp.pk].due_back = resp.date
    /\ instances[resp.pk].status = "o"
    /\ instances[resp.pk].borrower = {"patron"}
    /\ \E k \in DOMAIN instances \ {resp.pk} : instances[k].due_back = {}

\* C2: the renewal form accepts a submitted date d exactly when
\* today <= d <= today + 4 weeks; an accepted date (today among them) is
\* persisted, a rejected date (yesterday, five weeks ahead) leaves the copy's
\* due_back as it was.
C2_RenewalDateWindow ==
    [][\A u \in {resp'.user}, pk \in {resp'.pk}, d \in resp'.date :
        (/\ RenewStep(u, pk, "POST", {d})
         /\ Authorized(u)
         /\ pk \in DOMAIN instances)
        => IF today <= d /\ d <= FourWeeksAhead
           THEN /\ resp'.code = "redirect_all-borrowed"
                /\ instances'[pk].due_back = {d}
           ELSE /\ resp'.code = "form_errors"
                /\ instances'[pk].due_back = instances[pk].due_back]_vars

\* A date five weeks ahead has been refused and the copy still holds the date
\* it held.
C2_Witness ==
    /\ resp.op = "renew" /\ resp.method = "POST" /\ resp.user = "librarian"
    /\ resp.code = "form_errors"
    /\ resp.date = {today + 5 * 7}
    /\ resp.pk \in DOMAIN instances
    /\ instances[resp.pk].due_back = {today}

\* C3: a renewal request changes the store only when it is a POST whose date
\* passes validation; a POST whose date fails validation and a request with
\* another method leave the store as it was and are answered with the
\* rendered form: with field errors for the POST, with a proposed date of
\* today + 3 weeks for the other methods.
C3_OnlyValidPostMutates ==
    [][\A u \in {resp'.user}, pk \in {resp'.pk}, m \in {resp'.method}, d \in {resp'.date} :
        RenewStep(u, pk, m, d)
        => /\ ~SameStore => m = "POST" /\ d # {} /\ is_valid(The(d))
           /\ (/\ Authorized(u) /\ pk \in DOMAIN instances
               /\ m = "POST" /\ (d = {} \/ ~is_valid(The(d))))
              => SameStore /\ resp'.code = "form_errors"
           /\ (Authorized(u) /\ pk \in DOMAIN instances /\ m # "POST")
              => /\ SameStore
                 /\ resp'.code = "form"
                 /\ resp'.initial = {today + 3 * 7}]_vars

\* The librarian has asked for the form with a method that is not POST, after
\* a renewal that changed a copy.
C3_Witness ==
    /\ resp.op = "renew" /\ resp.method = "PUT" /\ resp.user = "librarian"
    /\ resp.code = "form"
    /\ resp.initial = {today + 3 * 7}
    /\ resp.pk \in DOMAIN instances
    /\ instances[resp.pk].due_back = {FourWeeksAhead}

GatedOps == {"all-borrowed", "renew", "author-create", "author-update", "author-delete",
             "book-create", "book-update", "book-delete"}

\* C4: every permission-gated endpoint answers an unauthenticated caller with
\* a redirect to the login flow, and an authenticated caller without
\* can_mark_returned with a forbidden response.
C4_GateResponses ==
    resp.op \in GatedOps =>
        /\ ~is_authenticated(resp.user) => resp.code = "redirect_login"
        /\ (is_authenticated(resp.user) /\ ~has_perm(resp.user)) => resp.code = "forbidden"

Listed == {resp.list[i] : i \in 1..Len(resp.list)}

\* The list of the response has no row twice and is ascending on due_back
\* wherever both rows have a date.
ListAscending ==
    /\ Cardinality(Listed) = Len(resp.list)
    /\ \A i, j \in 1..Len(resp.list) :
          (/\ i < j
           /\ instances[resp.list[i]].due_back # {}
           /\ instances[resp.list[j]].due_back # {})
          => The(instances[resp.list[i]].due_back) <= The(instances[resp.list[j]].due_back)

C8_DueBackOnlyOnLoan ==
    \A k \in DOMAIN instances : instances[k].due_back # {} => instances[k].status = "o"

\* C9: in the renewal handler the authorization check comes before the lookup
\* and before both branches: a request of a caller who is unauthenticated or
\* lacks can_mark_returned leaves the store as it was and is answered with the
\* authorization failure, also for a key that matches no copy; not-found is
\* the answer to an authorized caller only, and changes nothing.
C9_AuthorizationFirst ==
    [][\A u \in {resp'.user}, pk \in {resp'.pk}, m \in {resp'.method}, d \in {resp'.date} :
        RenewStep(u, pk, m, d)
        => /\ ~Authorized(u)
              => SameStore /\ resp'.code \in {"redirect_login", "forbidden"}
           /\ resp'.code = "not_found"
              => Authorized(u) /\ pk \notin DOMAIN instances /\ SameStore
           /\ (Authorized(u) /\ pk \notin DOMAIN instances)
              => resp'.code = "not_found"]_vars

\* A caller without the permission has posted a valid date for a key that
\* matches no copy and got the authorization failure.
C9_Witness ==
    /\ resp.op = "renew" /\ resp.method = "POST" /\ resp.user = "patron"
    /\ resp.date = {today}
    /\ resp.pk \notin DOMAIN instances
    /\ resp.code = "redirect_login"

Quiet(s) == InFlight(s) = {}

\* C10 as stated: once the landing-page views of a session have completed,
\* the stored counter equals their number and the last one showed one less,
\* also when views of the session overlapped.
C10_NoLostIncrement ==
    /\ \A s \in Sessions : Quiet(s) => sessions[s] = completed[s]
    /\ (resp.op = "index" /\ Quiet(resp.session))
       => resp.shown = {completed[resp.session] - 1}

\* C10 as amended: every view shows the value it read and stores that value
\* plus one; the stored counter never exceeds the number of completed views;
\* when no two views of the session overlapped, the stored counter equals the
\* number of completed views and the k-th view showed k-1; the counter of a
\* session changes only in the write step of a view of that session.
C10_SerialViewsCount ==
    /\ [](\A s \in Sessions :
            /\ sessions[s] <= completed[s]
            /\ completed[s] > 0 => sessions[s] >= 1
            /\ (Quiet(s) /\ ~overlapped[s]) => sessions[s] = completed[s])
    /\ [](resp.op = "index"
            => /\ sessions[resp.session] = The(resp.shown) + 1
               /\ ~overlapped[resp.session]
                  => resp.shown = {completed[resp.session] - 1})
    /\ [][\A s \in Sessions :
            sessions'[s] # sessions[s]
            => \E r \in DOMAIN inflight :
                  /\ IndexWrite(r)
                  /\ The(inflight[r]).session = s]_vars

\* Three views of one session have completed one after another while a view
\* of the other session is in flight.
C10_Witness ==
    /\ completed["s1"] = 3 /\ sessions["s1"] = 3 /\ ~overlapped["s1"]
    /\ resp.op = "index" /\ resp.session = "s1" /\ resp.shown = {2}
    /\ InFlight("s2") # {}

====
